---- MODULE Spec2Model ----
(***************************************************************************)
(* Model of main() of src/main.rs (Limeth/submanifold): what its setup     *)
(* builds from the surface's capabilities (swapchain dimensions, viewport, *)
(* uniform and vertex data), and its frame loop `loop { ... }` with the    *)
(* submission tracker `submissions`, the swapchain it acquires images from *)
(* and presents them to, the GPU that completes submitted work, and the    *)
(* window whose events it polls.                                           *)
(***************************************************************************)
EXTENDS Integers, Naturals, Sequences, FiniteSets, TLC

(***************************************************************************)
(* Bounds of the model.                                                    *)
(***************************************************************************)
\* The loop is unbounded; the model runs at most MaxIter iterations.
MaxIter == 3
\* poll_events() yields a finite batch; the model draws at most MaxEvents.
MaxEvents == 2
\* Progress is checked over the first MaxLiveIter iterations.
MaxLiveIter == 2

(***************************************************************************)
(* Program constants.                                                      *)
(***************************************************************************)
\* Swapchain::new(&device, &window.surface(), 2, ...): number of images.
ImageCount == 2

\* Value of a local that is not bound (before its `let`, after its scope).
None == -1

ImageIdx == 0 .. (ImageCount - 1)

\* const RESOLUTION: [u32; 2] = [1280, 1024];
RESOLUTION == <<1280, 1024>>

\* caps.current_extent is an Option<[u32; 2]>; <<>> stands for None.
NoExtent == <<>>

\* The extents the surface can report: none, the configured resolution, or
\* another size.
Extents == {NoExtent, RESOLUTION, <<800, 600>>}

\* Option::unwrap_or
unwrap_or(opt, default) == IF opt = NoExtent THEN default ELSE opt

\* A swapchain created without the fallback: a missing extent gives 0 x 0.
SwapchainDimensionsNoFallback(extent) == unwrap_or(extent, <<0, 0>>)

\* let dimensions = caps.current_extent.unwrap_or(RESOLUTION);
SwapchainDimensions(extent) == unwrap_or(extent, RESOLUTION)

\* Width of the binary exponent by which n exceeds 24 significant bits.
RECURSIVE ExcessBits(_)
ExcessBits(n) == IF n < 16777216 THEN 0 ELSE 1 + ExcessBits(n \div 2)

\* `n as f32` for a u32 n: the nearest value with a 24-bit significand,
\* ties to even; the result is given as the integer it denotes.
AsF32(n) ==
    LET q == 2 ^ ExcessBits(n)
        r == n % q
        lo == n - r
    IN  IF r = 0 THEN n
        ELSE IF 2 * r < q THEN lo
        ELSE IF 2 * r > q THEN lo + q
        ELSE IF (lo \div q) % 2 = 0 THEN lo ELSE lo + q

\* A viewport built from the RESOLUTION constant instead of the images.
ViewportFromResolution(dims) ==
    <<AsF32(RESOLUTION[1]), AsF32(RESOLUTION[2])>>

\* Viewport { dimensions: [images[0].dimensions()[0] as f32,
\*                         images[0].dimensions()[1] as f32], .. }
\* where dims are the dimensions of the swapchain's images.
ViewportDimensions(dims) == <<AsF32(dims[1]), AsF32(dims[2])>>

\* Uniform data taken from the swapchain's dimensions instead of RESOLUTION.
UniformDataFromDimensions(dims) == <<AsF32(dims[1]), AsF32(dims[2])>>

\* vs::ty::Data { resolution: [RESOLUTION[0] as f32, RESOLUTION[1] as f32] }
UniformData(dims) == <<AsF32(RESOLUTION[1]), AsF32(RESOLUTION[2])>>

\* The four vertices of the quad, in buffer order.
VertexData == <<<<-1, -1>>, <<1, -1>>, <<1, 1>>, <<-1, 1>>>>

\* `images`: the swapchain's images, in swapchain order.
images == [i \in ImageIdx |-> i]

\* `framebuffers`: one framebuffer per image, built by images.iter().map(..),
\* so framebuffers[i] is the framebuffer whose colour attachment is images[i]
\* (a framebuffer is identified by its attachment).
framebuffers == [i \in ImageIdx |-> images[i]]

\* winit events the loop can see: Closed, and the others, which the match
\* treats alike (`_ => ()`); Resized stands for them.
Event == {"Closed", "Resized"}

\* Batches poll_events() can yield in one call.
Batches == UNION {[1 .. n -> Event] : n \in 0 .. MaxEvents}

\* A loop body that presents before it submits.
StepOrderPresentBeforeSubmit ==
    <<"prune", "acquire", "record", "present", "submit", "poll">>

\* A loop body that prunes after the submit instead of before the acquire.
StepOrderPruneAfterSubmit ==
    <<"acquire", "record", "submit", "prune", "present", "poll">>

\* A loop body that polls the window before it presents.
StepOrderPollBeforePresent ==
    <<"prune", "acquire", "record", "submit", "poll", "present">>

\* The statements of the loop body, in program order.
StepOrder == <<"prune", "acquire", "record", "submit", "present", "poll">>

IndexOf(step) == CHOOSE i \in 1 .. Len(StepOrder) : StepOrder[i] = step

\* The statement that follows `step` in the loop body (the body's first
\* statement after its last one).
NextStep(step) ==
    IF IndexOf(step) = Len(StepOrder) THEN StepOrder[1]
    ELSE StepOrder[IndexOf(step) + 1]

VARIABLES
    pc,             \* next statement of main(), or "Terminated" / "panicked"
    submissions,    \* the Vec<Arc<Submission>> tracker
    pending,        \* submissions whose GPU work is not finished
    imgState,       \* per swapchain image: "free", "acquired", "presented"
    image_num,      \* the local image_num of the current iteration
    command_buffer, \* the local command_buffer: the framebuffer it draws to
    events,         \* the batch drained by the last poll_events() loop
    err,            \* the Err a call of the loop body returned, or "none"
    iter,           \* number of the current iteration (from 1)
    trace,          \* statements executed so far in the current iteration
    before,         \* tracker contents when the last retain() started
    beforePending,  \* pending set when the last retain() ran
    presented,      \* image indices passed to present(), in order
    nAcquire, nRecord, nSubmit, nPresent,  \* successful calls so far
    current_extent, \* caps.current_extent, as the surface reported it
    dimensions,     \* dimensions of the swapchain and of each of its images
    viewport,       \* dimensions of the pipeline's fixed viewport
    uniform_buffer, \* contents of uniform_buffer: Data.resolution
    vertex_buffer,  \* contents of vertex_buffer
    renders,        \* per image: the last submission that draws to it, or 0
    earlyAcquire    \* an acquire returned an image still being drawn to

vars == <<pc, submissions, pending, imgState, image_num, command_buffer,
          events, err, iter, trace, before, beforePending, presented,
          nAcquire, nRecord, nSubmit, nPresent,
          current_extent, dimensions, viewport, uniform_buffer,
          vertex_buffer, renders, earlyAcquire>>

\* What the setup code before the loop built.
setup ==
    <<current_extent, dimensions, viewport, uniform_buffer, vertex_buffer>>

counters == <<nAcquire, nRecord, nSubmit, nPresent>>
locals == <<image_num, command_buffer>>
ghosts == <<before, beforePending>>
inflight == <<renders, earlyAcquire>>

Range(s) == {s[i] : i \in 1 .. Len(s)}

\* s.destroying_would_block(): true while the GPU has not finished s.
destroying_would_block(s) == s \in pending

\* A retain() with the closure negated: keeps the finished submissions.
RECURSIVE RetainInverted(_)
RetainInverted(v) ==
    IF v = <<>> THEN <<>>
    ELSE IF ~destroying_would_block(Head(v))
         THEN <<Head(v)>> \o RetainInverted(Tail(v))
         ELSE RetainInverted(Tail(v))

\* A queue-pop instead of a filter: drops finished submissions from the
\* front only, and stops at the first one that is still pending.
RECURSIVE RetainPopFront(_)
RetainPopFront(v) ==
    IF v = <<>> THEN <<>>
    ELSE IF destroying_would_block(Head(v)) THEN v
         ELSE RetainPopFront(Tail(v))

\* Vec::retain(|s| s.destroying_would_block()): keeps, in order, the
\* elements whose destructor would block and drops the others.
RECURSIVE Retain(_)
Retain(v) ==
    IF v = <<>> THEN <<>>
    ELSE IF destroying_would_block(Head(v))
         THEN <<Head(v)>> \o Retain(Tail(v))
         ELSE Retain(Tail(v))

\* Position of the first Closed event of a batch, 0 if there is none.
FirstClosed(batch) ==
    IF \E i \in 1 .. Len(batch) : batch[i] = "Closed"
    THEN CHOOSE i \in 1 .. Len(batch) :
            /\ batch[i] = "Closed"
            /\ \A j \in 1 .. (i - 1) : batch[j] # "Closed"
    ELSE 0

\* A poll that looks at the first event of the batch only.
PollReturnsFirstOnly(batch) == batch # <<>> /\ Head(batch) = "Closed"

\* A poll that returns on any event at all.
PollReturnsOnAnyEvent(batch) == batch # <<>>

\* The `for ev in poll_events() { match ev { Closed => return, _ => () } }`
\* loop returns from main() iff some event of the batch is Closed.
PollReturns(batch) == FirstClosed(batch) # 0

Init ==
    /\ pc = StepOrder[1]
    /\ submissions = <<>>
    /\ pending = {}
    /\ imgState = [i \in ImageIdx |-> "free"]
    /\ image_num = None
    /\ command_buffer = None
    /\ events = <<>>
    /\ err = "none"
    /\ iter = 1
    /\ trace = <<>>
    /\ before = <<>>
    /\ beforePending = {}
    /\ presented = <<>>
    /\ nAcquire = 0
    /\ nRecord = 0
    /\ nSubmit = 0
    /\ nPresent = 0
    /\ current_extent \in Extents
    /\ dimensions = SwapchainDimensions(current_extent)
    /\ viewport = ViewportDimensions(dimensions)
    /\ uniform_buffer = UniformData(dimensions)
    /\ vertex_buffer = VertexData
    /\ renders = [i \in ImageIdx |-> 0]
    /\ earlyAcquire = FALSE

\* A statement of the loop body runs and control moves to the next one.
Advance(step) ==
    /\ iter <= MaxIter
    /\ pc = step
    /\ pc' = NextStep(step)
    /\ trace' = Append(trace, step)

\* An error that is reported and then skipped: the rest of the frame is
\* dropped and the loop goes on with its event poll.
PanicContinue(step, why) ==
    /\ iter <= MaxIter
    /\ pc = step
    /\ pc' = "poll"
    /\ err' = why
    /\ trace' = Append(trace, step)

\* unwrap() on the Err `why` returned by the call of statement `step`:
\* main() panics there.
Panic(step, why) ==
    /\ iter <= MaxIter
    /\ pc = step
    /\ pc' = "panicked"
    /\ err' = why
    /\ trace' = Append(trace, step)

\* submissions.retain(|s| s.destroying_would_block());
Prune ==
    /\ Advance("prune")
    /\ submissions' = Retain(submissions)
    /\ before' = submissions
    /\ beforePending' = pending
    /\ UNCHANGED <<setup, inflight, pending, imgState, locals, events, err,
                   iter, presented, counters>>

\* An acquire that falls back to image 0 when the wait times out.
AcquireIgnoringTimeout ==
    \/ \E i \in ImageIdx :
          /\ imgState[i] = "free"
          /\ Advance("acquire")
          /\ image_num' = i
          /\ imgState' = [imgState EXCEPT ![i] = "acquired"]
          /\ nAcquire' = nAcquire + 1
          /\ earlyAcquire' = (earlyAcquire \/ renders[i] \in pending)
          /\ UNCHANGED <<setup, renders, submissions, pending, command_buffer,
                         events, err, iter, ghosts, presented, nRecord,
                         nSubmit, nPresent>>
    \/ /\ \A i \in ImageIdx : imgState[i] # "free"
       /\ Advance("acquire")
       /\ err' = "AcquireTimeout"
       /\ image_num' = 0
       /\ UNCHANGED <<setup, inflight, submissions, pending, imgState,
                      command_buffer, events, iter, ghosts, presented,
                      counters>>
    \/ /\ Panic("acquire", "AcquireError")
       /\ UNCHANGED <<setup, inflight, submissions, pending, imgState, locals,
                      events, iter, ghosts, presented, counters>>

\* let image_num = swapchain.acquire_next_image(Duration::new(1, 0)).unwrap();
Acquire ==
    \/ \E i \in ImageIdx :
          /\ imgState[i] = "free"
          /\ Advance("acquire")
          /\ image_num' = i
          /\ imgState' = [imgState EXCEPT ![i] = "acquired"]
          /\ nAcquire' = nAcquire + 1
          /\ earlyAcquire' = (earlyAcquire \/ renders[i] \in pending)
          /\ UNCHANGED <<setup, renders, submissions, pending, command_buffer,
                         events, err, iter, ghosts, presented, nRecord,
                         nSubmit, nPresent>>
    \/ /\ \A i \in ImageIdx : imgState[i] # "free"
       /\ Panic("acquire", "AcquireTimeout")
       /\ UNCHANGED <<setup, inflight, submissions, pending, imgState, locals,
                      events, iter, ghosts, presented, counters>>
    \/ /\ Panic("acquire", "AcquireError")
       /\ UNCHANGED <<setup, inflight, submissions, pending, imgState, locals,
                      events, iter, ghosts, presented, counters>>

\* A recording that always draws to the first framebuffer.
RecordFirstFramebuffer ==
    /\ Advance("record")
    /\ command_buffer' = framebuffers[0]
    /\ nRecord' = nRecord + 1
    /\ UNCHANGED <<setup, inflight, submissions, pending, imgState, image_num,
                   events, err, iter, ghosts, presented, nAcquire, nSubmit,
                   nPresent>>

\* A recording that refreshes the uniform buffer from the swapchain's
\* dimensions every frame.
RecordUpdatesUniform ==
    /\ Advance("record")
    /\ command_buffer' = framebuffers[image_num]
    /\ nRecord' = nRecord + 1
    /\ uniform_buffer' = UniformDataFromDimensions(dimensions)
    /\ UNCHANGED <<current_extent, dimensions, viewport, vertex_buffer>>
    /\ UNCHANGED inflight
    /\ UNCHANGED <<submissions, pending, imgState, image_num, events, err,
                   iter, ghosts, presented, nAcquire, nSubmit, nPresent>>

\* let command_buffer = PrimaryCommandBufferBuilder::new(..)
\*     .draw_inline(&render_pass, &framebuffers[image_num], ..)
\*     .draw(..).draw_end().build();
Record ==
    /\ Advance("record")
    /\ command_buffer' = framebuffers[image_num]
    /\ nRecord' = nRecord + 1
    /\ UNCHANGED <<setup, inflight, submissions, pending, imgState, image_num,
                   events, err, iter, ghosts, presented, nAcquire, nSubmit,
                   nPresent>>

\* A submit whose Submission is dropped instead of pushed.
SubmitForgetsPush ==
    \/ /\ Advance("submit")
       /\ submissions' = submissions
       /\ pending' = pending \cup {nSubmit + 1}
       /\ nSubmit' = nSubmit + 1
       /\ renders' = [renders EXCEPT ![command_buffer] = nSubmit + 1]
       /\ UNCHANGED <<setup, earlyAcquire, imgState, locals, events, err, iter,
                      ghosts, presented, nAcquire, nRecord, nPresent>>
    \/ /\ Panic("submit", "SubmitError")
       /\ UNCHANGED <<setup, inflight, submissions, pending, imgState, locals,
                      events, iter, ghosts, presented, counters>>

\* A submit whose Submission is inserted at the front of the tracker.
SubmitPushFront ==
    \/ /\ Advance("submit")
       /\ submissions' = <<nSubmit + 1>> \o submissions
       /\ pending' = pending \cup {nSubmit + 1}
       /\ nSubmit' = nSubmit + 1
       /\ renders' = [renders EXCEPT ![command_buffer] = nSubmit + 1]
       /\ UNCHANGED <<setup, earlyAcquire, imgState, locals, events, err, iter,
                      ghosts, presented, nAcquire, nRecord, nPresent>>
    \/ /\ Panic("submit", "SubmitError")
       /\ UNCHANGED <<setup, inflight, submissions, pending, imgState, locals,
                      events, iter, ghosts, presented, counters>>

\* A submit that hands the command buffer to the queue twice.
SubmitTwice ==
    \/ /\ Advance("submit")
       /\ submissions' = submissions \o <<nSubmit + 1, nSubmit + 2>>
       /\ pending' = pending \cup {nSubmit + 1, nSubmit + 2}
       /\ nSubmit' = nSubmit + 2
       /\ renders' = [renders EXCEPT ![command_buffer] = nSubmit + 2]
       /\ UNCHANGED <<setup, earlyAcquire, imgState, locals, events, err, iter,
                      ghosts, presented, nAcquire, nRecord, nPresent>>
    \/ /\ Panic("submit", "SubmitError")
       /\ UNCHANGED <<setup, inflight, submissions, pending, imgState, locals,
                      events, iter, ghosts, presented, counters>>

\* submissions.push(command_buffer::submit(&command_buffer, &queue).unwrap());
Submit ==
    \/ /\ Advance("submit")
       /\ submissions' = Append(submissions, nSubmit + 1)
       /\ pending' = pending \cup {nSubmit + 1}
       /\ nSubmit' = nSubmit + 1
       /\ renders' = [renders EXCEPT ![command_buffer] = nSubmit + 1]
       /\ UNCHANGED <<setup, earlyAcquire, imgState, locals, events, err, iter,
                      ghosts, presented, nAcquire, nRecord, nPresent>>
    \/ /\ Panic("submit", "SubmitError")
       /\ UNCHANGED <<setup, inflight, submissions, pending, imgState, locals,
                      events, iter, ghosts, presented, counters>>

\* A present that always asks for image 0.
PresentFirstImage ==
    \/ /\ Advance("present")
       /\ imgState' = [imgState EXCEPT ![0] = "presented"]
       /\ presented' = Append(presented, 0)
       /\ nPresent' = nPresent + 1
       /\ UNCHANGED <<setup, inflight, submissions, pending, locals, events,
                      err, iter, ghosts, nAcquire, nRecord, nSubmit>>
    \/ /\ Panic("present", "PresentError")
       /\ UNCHANGED <<setup, inflight, submissions, pending, imgState, locals,
                      events, iter, ghosts, presented, counters>>

\* swapchain.present(&queue, image_num).unwrap();
Present ==
    \/ /\ Advance("present")
       /\ imgState' = [imgState EXCEPT ![image_num] = "presented"]
       /\ presented' = Append(presented, image_num)
       /\ nPresent' = nPresent + 1
       /\ UNCHANGED <<setup, inflight, submissions, pending, locals, events,
                      err, iter, ghosts, nAcquire, nRecord, nSubmit>>
    \/ /\ Panic("present", "PresentError")
       /\ UNCHANGED <<setup, inflight, submissions, pending, imgState, locals,
                      events, iter, ghosts, presented, counters>>

\* A poll that also prunes the tracker before it looks at the events.
PollPrunes ==
    \E batch \in Batches :
        /\ iter <= MaxIter
        /\ pc = "poll"
        /\ events' = batch
        /\ submissions' = Retain(submissions)
        /\ IF PollReturns(batch)
           THEN /\ pc' = "Terminated"
                /\ trace' = Append(trace, "poll")
                /\ UNCHANGED <<iter, locals>>
           ELSE /\ pc' = NextStep("poll")
                /\ trace' = <<>>
                /\ iter' = iter + 1
                /\ image_num' = None
                /\ command_buffer' = None
        /\ UNCHANGED <<setup, inflight, pending, imgState, err, ghosts,
                       presented, counters>>

\* A poll whose Closed arm leaves the for loop only (`break`), not main().
PollBreakOnly ==
    \E batch \in Batches :
        /\ iter <= MaxIter
        /\ pc = "poll"
        /\ events' = batch
        /\ pc' = NextStep("poll")
        /\ trace' = <<>>
        /\ iter' = iter + 1
        /\ image_num' = None
        /\ command_buffer' = None
        /\ UNCHANGED <<setup, inflight, submissions, pending, imgState, err,
                       ghosts, presented, counters>>

\* for ev in window.window().poll_events() {
\*     match ev { winit::Event::Closed => return, _ => () }
\* }
\* and, with no Closed event, the end of the loop body.
Poll ==
    \E batch \in Batches :
        /\ iter <= MaxIter
        /\ pc = "poll"
        /\ events' = batch
        /\ IF PollReturns(batch)
           THEN /\ pc' = "Terminated"
                /\ trace' = Append(trace, "poll")
                /\ UNCHANGED <<iter, locals>>
           ELSE /\ pc' = NextStep("poll")
                /\ trace' = <<>>
                /\ iter' = iter + 1
                /\ image_num' = None
                /\ command_buffer' = None
        /\ UNCHANGED <<setup, inflight, submissions, pending, imgState, err,
                       ghosts, presented, counters>>

\* The GPU finishes the work of a submission: from then on
\* destroying_would_block() is false for it.
GpuComplete ==
    \E s \in pending :
        /\ pending' = pending \ {s}
        /\ UNCHANGED <<setup, inflight, pc, submissions, imgState, locals,
                       events, err, iter, trace, ghosts, presented, counters>>

\* The presentation engine is done with a presented image: it can be
\* acquired again.
ReleaseImage ==
    \E i \in ImageIdx :
        /\ imgState[i] = "presented"
        /\ imgState' = [imgState EXCEPT ![i] = "free"]
        /\ UNCHANGED <<setup, inflight, pc, submissions, pending, locals,
                       events, err, iter, trace, ghosts, presented, counters>>

Next ==
    \/ Prune
    \/ Acquire
    \/ Record
    \/ Submit
    \/ Present
    \/ Poll
    \/ GpuComplete
    \/ ReleaseImage

Spec == Init /\ [][Next]_vars

\* Scenario A: a fresh start on a 1280 x 1024 surface.
LiveInit == Init /\ current_extent = RESOLUTION

\* The steps of the first MaxLiveIter iterations.
LiveNext == iter <= MaxLiveIter /\ Next

\* main() runs on one thread that is never suspended for good and whose
\* calls return: a statement of the loop body that can run does run.  The
\* GPU and the presentation engine are under no such obligation.
LiveSpec ==
    /\ LiveInit
    /\ [][LiveNext]_vars
    /\ WF_vars(iter <= MaxLiveIter /\ Prune)
    /\ WF_vars(iter <= MaxLiveIter /\ Acquire)
    /\ WF_vars(iter <= MaxLiveIter /\ Record)
    /\ WF_vars(iter <= MaxLiveIter /\ Submit)
    /\ WF_vars(iter <= MaxLiveIter /\ Present)
    /\ WF_vars(iter <= MaxLiveIter /\ Poll)

TypeOK ==
    /\ pc \in Range(StepOrder) \cup {"Terminated", "panicked"}
    /\ iter \in 1 .. (MaxIter + 1)
    /\ image_num \in ImageIdx \cup {None}
    /\ events \in Batches
    /\ pending \subseteq 1 .. MaxIter
    /\ Range(submissions) \subseteq 1 .. MaxIter

(***************************************************************************)
(* Properties of the frame loop.                                           *)
(***************************************************************************)
ContainsClose(batch) == \E i \in 1 .. Len(batch) : batch[i] = "Closed"

\* The step from s to s' is the statement `step` of the loop body (the GPU
\* and the presentation engine never move pc).
StepOf(step) == pc = step /\ pc' # step

\* C1: if the batch drained by the poll of an iteration contains a Closed
\* event, at any position, the loop exits in that same iteration, and after
\* the exit no acquire, record, submit or present happens any more.
C1_CloseExitsSameIteration ==
    [][ /\ (StepOf("poll") /\ ContainsClose(events'))
            => (pc' = "Terminated" /\ iter' = iter /\ UNCHANGED counters)
        /\ (pc = "Terminated")
            => (pc' = "Terminated"
                /\ UNCHANGED <<counters, trace, presented, submissions, iter>>)
      ]_vars

\* The loop has exited on a batch whose Closed event is not the first event.
C1_Witness ==
    /\ pc = "Terminated"
    /\ Len(events) >= 2
    /\ events[1] # "Closed"
    /\ events[2] = "Closed"

\* C2: a prune never grows the tracker, and no submission whose GPU work was
\* complete when the prune ran is in the tracker after it.
C2_PruneShrinksAndDropsComplete ==
    [][ StepOf("prune")
        => /\ Len(submissions') <= Len(submissions)
           /\ \A i \in 1 .. Len(submissions') : submissions'[i] \in pending
      ]_vars

\* A prune has just removed some submissions and kept others.
C2_Witness ==
    /\ pc = "acquire"
    /\ submissions # <<>>
    /\ Len(submissions) < Len(before)

\* C3: prune is an exact filter: the tracker after it holds exactly the
\* submissions that were in it before and are still pending, each once.
C3_PruneIsExactFilter ==
    [][ StepOf("prune")
        => /\ Range(submissions') = {s \in Range(submissions) : s \in pending}
           /\ Len(submissions') = Cardinality(Range(submissions'))
      ]_vars

\* A prune has just removed a finished submission that sat behind a pending
\* one, which it kept.
C3_Witness ==
    /\ pc = "acquire"
    /\ \E i, j \in 1 .. Len(before) :
          /\ i < j
          /\ before[i] \in Range(submissions)
          /\ before[j] \notin Range(submissions)

\* The statement `step` has run (or has been attempted) in this iteration.
Done(step) == \E i \in 1 .. Len(trace) : trace[i] = step

\* C4: the image index acquire returned is in [0, image_count), there is one
\* framebuffer per image, and the framebuffer the commands are recorded
\* against is the one at exactly that index.
C4_AcquiredIndexSelectsFramebuffer ==
    /\ DOMAIN framebuffers = 0 .. (ImageCount - 1)
    /\ DOMAIN images = DOMAIN framebuffers
    /\ image_num # None => image_num \in 0 .. (ImageCount - 1)
    /\ command_buffer # None
         => (image_num # None /\ command_buffer = framebuffers[image_num])

\* Commands have been recorded against the framebuffer of image 1.
C4_Witness ==
    /\ pc = "submit"
    /\ image_num = 1
    /\ command_buffer = framebuffers[1]

\* C5: in every iteration the statements run in the order prune, acquire,
\* record, submit, present, poll, and each one starts only when the handle
\* of its predecessor exists: record has the image index, submit the
\* command buffer, present the submission, poll comes after the present.
C5_StepsInOrderWithHandles ==
    /\ Len(trace) <= 6
    /\ \A i \in 1 .. Len(trace) :
          trace[i] = <<"prune", "acquire", "record",
                       "submit", "present", "poll">>[i]
    /\ Done("record") => (nAcquire = iter /\ image_num \in ImageIdx)
    /\ Done("submit") => (nRecord = iter /\ command_buffer # None)
    /\ Done("present")
         => /\ nSubmit = iter
            /\ submissions # <<>>
            /\ submissions[Len(submissions)] = nSubmit
    /\ Done("poll") => nPresent = iter

\* A second iteration has run all its statements up to the poll.
C5_Witness ==
    /\ pc = "poll"
    /\ iter = 2
    /\ trace = <<"prune", "acquire", "record", "submit", "present">>

\* C6: every acquire is preceded, in the same iteration, by a prune, with
\* no submit between the two.
C6_PruneBeforeAcquire ==
    \A i \in 1 .. Len(trace) :
        trace[i] = "acquire"
          => \E j \in 1 .. (i - 1) :
                /\ trace[j] = "prune"
                /\ \A k \in (j + 1) .. (i - 1) : trace[k] # "submit"

\* An acquire has run in an iteration whose prune had submissions to look at.
C6_Witness ==
    /\ Done("acquire")
    /\ pc = "record"
    /\ before # <<>>

\* C7: when the acquire times out, main() panics in that iteration: nothing
\* is recorded, submitted or presented in it, the tracker holds what the
\* prune left, and nothing runs afterwards.
C7_AcquireTimeoutIsFatal ==
    /\ [](err = "AcquireTimeout"
            => /\ pc = "panicked"
               /\ trace = <<"prune", "acquire">>
               /\ image_num = None
               /\ command_buffer = None
               /\ nAcquire = iter - 1
               /\ nRecord = iter - 1
               /\ nSubmit = iter - 1
               /\ nPresent = iter - 1
               /\ Len(submissions) <= Len(before)
               /\ Range(submissions) \subseteq Range(before))
    /\ [][err = "AcquireTimeout"
            => UNCHANGED <<pc, err, trace, counters, submissions,
                           presented, iter>>]_vars

\* The acquire has timed out with both images held by the presentation
\* engine.
C7_Witness ==
    /\ err = "AcquireTimeout"
    /\ \A i \in ImageIdx : imgState[i] = "presented"

\* C8: when the loop exits on the first Closed event, seen by the poll of
\* iteration n, exactly n acquires, n submits and n presents have happened.
C8_OneCyclePerIteration ==
    pc = "Terminated"
      => /\ nAcquire = iter
         /\ nRecord = iter
         /\ nSubmit = iter
         /\ nPresent = iter
         /\ Len(presented) = iter

\* The loop has exited from the poll of its third iteration.
C8_Witness ==
    /\ pc = "Terminated"
    /\ iter = 3
    /\ nPresent = 3

\* C9: main() returns only from a poll whose batch has a Closed event, and
\* a poll whose batch has none goes back to the top of the loop.
C9_TerminatedOnlyOnClose ==
    [][ /\ (pc' = "Terminated" /\ pc # "Terminated")
            => (pc = "poll" /\ ContainsClose(events'))
        /\ (StepOf("poll") /\ ~ContainsClose(events'))
            => (pc' = "prune" /\ iter' = iter + 1 /\ trace' = <<>>)
        /\ (pc = "Terminated") => ContainsClose(events)
      ]_vars

\* A poll that drained only other events has sent the loop back to its top.
C9_Witness ==
    /\ pc = "prune"
    /\ iter = 2
    /\ events # <<>>

\* The statement whose call returns the error e.
ErrStep(e) ==
    CASE e \in {"AcquireTimeout", "AcquireError"} -> "acquire"
      [] e = "SubmitError" -> "submit"
      [] e = "PresentError" -> "present"
      [] OTHER -> "none"

\* C10: every error of a call of the loop body is fatal: main() panics at
\* the failing statement, which is attempted once, and no statement of this
\* or of a later iteration runs afterwards.
C10_LoopErrorsAreFatal ==
    /\ [](err # "none"
            => /\ pc = "panicked"
               /\ trace[Len(trace)] = ErrStep(err)
               /\ Cardinality({i \in 1 .. Len(trace) :
                                  trace[i] = ErrStep(err)}) = 1)
    /\ [](pc = "panicked" => err # "none")
    /\ [][pc = "panicked"
            => UNCHANGED <<pc, err, trace, counters, submissions,
                           presented, iter, locals>>]_vars

\* The present of a second iteration has been rejected.
C10_Witness ==
    /\ pc = "panicked"
    /\ err = "PresentError"
    /\ iter = 2

(***************************************************************************)
(* Properties of the setup.                                                *)
(***************************************************************************)
\* C11, as stated: whatever extent the surface reports, the fixed viewport
\* equals the configured resolution, 1280 x 1024.
C11_ViewportEqualsResolution ==
    viewport = <<1280, 1024>>

\* C11, amended: the fixed viewport equals the dimensions of the swapchain's
\* images, which are the extent the surface reports, or RESOLUTION when it
\* reports none; so the viewport is 1280 x 1024 exactly when the reported
\* extent is undefined or is 1280 x 1024.
C11_ViewportEqualsImageDimensions ==
    /\ viewport = dimensions
    /\ current_extent # <<>> => viewport = current_extent
    /\ current_extent = <<>> => viewport = <<1280, 1024>>
    /\ viewport = <<1280, 1024>>
         <=> current_extent \in {<<>>, <<1280, 1024>>}

\* The loop runs on a surface of another size, with a viewport of that size.
C11_Witness ==
    /\ current_extent = <<800, 600>>
    /\ viewport = <<800, 600>>
    /\ pc = "record"

\* C12: when the surface reports no current extent, the swapchain's
\* dimensions and the uniform data are both the fallback, 1280 x 1024.
C12_FallbackResolution ==
    current_extent = <<>>
      => /\ dimensions = <<1280, 1024>>
         /\ uniform_buffer = <<1280, 1024>>

\* The loop runs on a surface that reported no extent.
C12_Witness ==
    /\ current_extent = <<>>
    /\ dimensions = RESOLUTION
    /\ pc = "record"

(***************************************************************************)
(* Properties of the loop's order and of its tracker.                      *)
(***************************************************************************)
\* Position of the statement `step` in this iteration's trace, 0 if it has
\* not run.
PosOf(step) ==
    IF Done(step) THEN CHOOSE i \in 1 .. Len(trace) : trace[i] = step ELSE 0

\* What the last prune left in the tracker: the entries it found that were
\* pending when it ran, in their order.
Pruned == SelectSeq(before, LAMBDA s : s \in beforePending)

\* C14, as stated: each iteration runs acquire, record, submit, prune,
\* present, poll, the prune between the submit and the present.
C14_PruneBetweenSubmitAndPresent ==
    \A i \in 1 .. Len(trace) :
        trace[i] = <<"acquire", "record", "submit",
                     "prune", "present", "poll">>[i]

\* C14, amended: each iteration runs prune, acquire, record, submit,
\* present, poll: the prune is the first statement, before the acquire, and
\* the present follows the submit directly.
C14_PruneFirstThenAcquire ==
    /\ trace # <<>> => trace[1] = "prune"
    /\ Cardinality({i \in 1 .. Len(trace) : trace[i] = "prune"}) <= 1
    /\ Done("acquire") => PosOf("acquire") = PosOf("prune") + 1
    /\ Done("record") => PosOf("record") = PosOf("acquire") + 1
    /\ Done("submit") => PosOf("submit") = PosOf("record") + 1
    /\ Done("present") => PosOf("present") = PosOf("submit") + 1
    /\ Done("poll") => PosOf("poll") = PosOf("present") + 1

\* The loop has exited after a full iteration.
C14_Witness ==
    /\ pc = "Terminated"
    /\ Len(trace) = 6

\* C15: a successful submit appends exactly one new submission to what the
\* prune of the iteration left, and touches no other entry; a rejected
\* submit panics with the tracker as the prune left it and without present.
C15_SubmitAppendsOne ==
    /\ (pc \in {"acquire", "record", "submit"}) => submissions = Pruned
    /\ (Done("submit") /\ err # "SubmitError")
         => /\ submissions = Append(Pruned, nSubmit)
            /\ Len(submissions) = Len(Pruned) + 1
            /\ nSubmit \notin Range(Pruned)
    /\ err = "SubmitError"
         => /\ pc = "panicked"
            /\ submissions = Pruned
            /\ ~Done("present")
            /\ nPresent = iter - 1

\* A submit has added a submission behind one that the prune kept.
C15_Witness ==
    /\ pc = "present"
    /\ Len(Pruned) >= 1
    /\ Len(submissions) = Len(Pruned) + 1

\* C16: the present asks for the image index the acquire of the same
\* iteration returned, the one the commands were recorded against, and
\* every acquired index is presented once, unless the loop aborts first.
C16_PresentsAcquiredImage ==
    /\ [](/\ Len(presented) = nPresent
          /\ nAcquire - nPresent \in {0, 1}
          /\ (Done("present") /\ err # "PresentError")
               => /\ nPresent = nAcquire
                  /\ presented[Len(presented)] = image_num
                  /\ framebuffers[presented[Len(presented)]] = command_buffer)
    /\ [][(StepOf("present") /\ err' = "none")
            => /\ presented' = Append(presented, image_num)
               /\ imgState[image_num] = "acquired"
               /\ imgState'[image_num] = "presented"]_vars

\* Image 1 has been acquired, drawn to and presented in a second iteration.
C16_Witness ==
    /\ pc = "poll"
    /\ iter = 2
    /\ image_num = 1
    /\ presented[Len(presented)] = 1

\* C17: no step of the loop changes what the setup built (swapchain
\* dimensions, pipeline viewport, uniform and vertex buffer contents), and
\* the tracker changes in the prune and the submit only.
C17_OnlyTrackerMutates ==
    [][ /\ UNCHANGED <<current_extent, dimensions, viewport,
                       uniform_buffer, vertex_buffer>>
        /\ submissions' # submissions
             => (StepOf("prune") \/ StepOf("submit"))
        /\ (StepOf("acquire") \/ StepOf("record")
              \/ StepOf("present") \/ StepOf("poll"))
             => submissions' = submissions
      ]_vars

\* The loop has gone through a whole iteration on a surface of another
\* size, with the uniform data still the configured resolution.
C17_Witness ==
    /\ iter = 2
    /\ pc = "acquire"
    /\ Len(submissions) < Len(before)
    /\ current_extent = <<800, 600>>
    /\ uniform_buffer = <<1280, 1024>>

\* C19: the tracker holds distinct submissions in creation order: every
\* entry comes from an earlier submit, none twice, older before newer, and
\* there are never more entries than submits.
C19_TrackerInCreationOrder ==
    /\ \A i \in 1 .. Len(submissions) : submissions[i] \in 1 .. nSubmit
    /\ \A i, j \in 1 .. Len(submissions) :
          i < j => submissions[i] < submissions[j]
    /\ Len(submissions) <= nSubmit

\* The tracker holds the second and third submission, the first one pruned.
C19_Witness ==
    submissions = <<2, 3>>

\* C20: nothing is pruned between a submit and the end of the iteration: the
\* tracker shrinks in a prune only, so when the loop exits on a Closed event
\* the tracker holds what the last prune left followed by the submission of
\* the final iteration, finished or not.
C20_NoPruneAfterSubmit ==
    /\ [](pc = "Terminated"
            => /\ submissions # <<>>
               /\ submissions = Append(Pruned, nSubmit)
               /\ nSubmit = iter)
    /\ [][Len(submissions') < Len(submissions) => StepOf("prune")]_vars
    /\ [][(\E i \in 1 .. Len(submissions) :
              submissions[i] \notin Range(submissions'))
            => StepOf("prune")]_vars

\* The loop has exited with the final iteration's submission in the tracker
\* although its GPU work is already complete.
C20_Witness ==
    /\ pc = "Terminated"
    /\ nSubmit \notin pending
    /\ submissions[Len(submissions)] = nSubmit
    /\ Len(submissions) >= 2

\* C18: as long as every acquire has returned an image whose last drawing
\* was complete, at most 2 tracked submissions (one per swapchain image)
\* are pending.
C18_FramesInFlightBounded ==
    ~earlyAcquire
      => Cardinality({i \in 1 .. Len(submissions) :
                         submissions[i] \in pending}) <= 2

\* A third iteration has submitted its frame while the frame of the other
\* image is still pending, every acquire having returned a finished image.
C18_Witness ==
    /\ ~earlyAcquire
    /\ iter = 3
    /\ pc = "present"
    /\ Cardinality(pending) = 2
    /\ pending \subseteq Range(submissions)

(***************************************************************************)
(* Progress of the loop.                                                   *)
(***************************************************************************)
\* main() is inside the loop body.
InLoop == pc \in {"prune", "acquire", "record", "submit", "present", "poll"}

\* C13: without a loop-time error the loop never stops on its own: it
\* leaves the loop body only by the return on a Closed event, every
\* iteration it starts runs through to the next one unless it is closed,
\* and once a poll has drained a Closed event the loop is Terminated.
C13_RunsUntilClosed ==
    /\ [][(InLoop /\ ~InLoop')
            => \/ (pc' = "Terminated" /\ ContainsClose(events'))
               \/ (pc' = "panicked" /\ err' # "none")]_vars
    /\ \A n \in 1 .. MaxLiveIter :
          (iter = n /\ InLoop)
            ~> (iter = n + 1 \/ pc = "Terminated" \/ err # "none")
    /\ ContainsClose(events) ~> (pc = "Terminated")

\* Two iterations have run without a Closed event and without an error.
C13_Witness ==
    /\ iter = 2
    /\ Len(events) >= 1
    /\ pc = "poll"
    /\ err = "none"
    /\ ~ContainsClose(events)

====
